---- MODULE Spec2Model ----
(***************************************************************************)
(* The FNG / moving-average buyer of btc_buyer, in its two variants        *)
(* (strategy_coinex_fng_ma_buyer.py, strategy_bitfinex_fng_ma_buyer.py).   *)
(*                                                                         *)
(* One process: main() validates the environment, registers the daily     *)
(* jobs, runs them once at startup and then polls the scheduler.  A job    *)
(* is either the signal cycle (run_strategy -> compute_buy_decision) or,   *)
(* in the Bitfinex variant, the fixed daily purchase.                      *)
(*                                                                         *)
(* Scaling.  Amounts are in units of 0.0001 BTC, thresholds in percent,    *)
(* time in ticks of 1/TicksPerDay day.  The moving average is kept as the  *)
(* pair (ma_sum, effective_ma_period), so that comparisons are exact.      *)
(***************************************************************************)
EXTENDS Integers, Sequences, FiniteSets, TLC

----------------------------------------------------------------------------
(* Bounds of the model *)

\* longest upstream history payload (number of candles)
MaxLen == 2
\* ticks the process is followed after the earliest start
Horizon == 1
\* clock resolution: ticks per calendar day
TicksPerDay == 2
\* longest upstream history payload of the series specification
MaxSeries == 3
\* ticks the process is followed in the scheduling specification
SchedHorizon == 3

(* Program constants *)

\* retries=3 of the three retrying functions
retries == 3
\* MA_PERIOD_DAYS (730 in the source), scaled down
ma_period == 2
\* fallback amounts 0.0002 / 0.0001 / 0.0005 BTC
DEFAULT_OVERLAP_AMOUNT == 2
DEFAULT_FNG_AMOUNT == 1
DEFAULT_MA_AMOUNT == 5

\* Python None, for fng_value
None == -1
\* number of values of uuid4().hex[:8] (16^8 in the source), scaled down
NumIds == 2

\* values the upstream services can answer with
FngValues == {10, 30}
Prices == {90, 91}
Closes == {100}
ClientIds == 1..NumIds

\* offset of TRIGGER_TIME within the day, in ticks
TriggerTick == 1
FirstTick == TicksPerDay
MaxTime == FirstTick + Horizon

Today(t) == t \div TicksPerDay

----------------------------------------------------------------------------
(* The environment (os.environ) *)

Unset == [kind |-> "unset", val |-> 0]
Bad == [kind |-> "bad", val |-> 0]
Num(n) == [kind |-> "num", val |-> n]

\* os.environ.get(x) is truthy: set and not the empty string
IsSet(v) == v.kind # "unset"
\* float(x) returns (does not raise ValueError)
FloatOk(v) == v.kind = "num"

MkEnv(key, trig, fngT, ov, fg, ma, daily) ==
    [ API_KEY |-> key, API_SECRET |-> key, TRIGGER_TIME |-> trig,
      FNG_THRESHOLD_PERCENT |-> fngT, MA_THRESHOLD_PERCENT |-> Num(10),
      BUY_OVERLAP_AMOUNT |-> ov, BUY_FNG_AMOUNT |-> fg, BUY_MA_AMOUNT |-> ma,
      BUY_DAILY_AMOUNT |-> daily ]

AmountProfiles ==
    { <<Unset, Unset, Unset>>, <<Num(6), Num(3), Num(4)>>,
      <<Num(0), Num(-1), Num(0)>>, <<Bad, Bad, Bad>> }

Envs ==
    { MkEnv(TRUE, "valid", Num(25), p[1], p[2], p[3], Num(1)) : p \in AmountProfiles }
    \cup { MkEnv(TRUE, "valid", Bad, Unset, Unset, Unset, Num(1)),
           MkEnv(FALSE, "valid", Num(25), Unset, Unset, Unset, Num(1)),
           MkEnv(TRUE, "invalid", Num(25), Unset, Unset, Unset, Num(1)),
           MkEnv(TRUE, "valid", Num(25), Unset, Unset, Unset, Num(0)),
           MkEnv(TRUE, "valid", Num(25), Unset, Unset, Unset, Bad),
           MkEnv(TRUE, "valid", Unset, Unset, Unset, Unset, Num(1)),
           MkEnv(TRUE, "unset", Num(25), Unset, Unset, Unset, Num(1)) }
    \cup { MkEnv(TRUE, "valid", Num(25), p[1], p[2], p[3], Unset) : p \in AmountProfiles }
    \cup { MkEnv(TRUE, "valid", Bad, Unset, Unset, Unset, Unset),
           MkEnv(FALSE, "valid", Num(25), Unset, Unset, Unset, Unset),
           MkEnv(TRUE, "invalid", Num(25), Unset, Unset, Unset, Unset),
           MkEnv(TRUE, "valid", Unset, Unset, Unset, Unset, Unset),
           MkEnv(TRUE, "unset", Num(25), Unset, Unset, Unset, Unset) }

Variants == {"coinex", "bitfinex"}

\* the environments of a variant: only the Bitfinex script reads
\* BUY_DAILY_AMOUNT, so the CoinEx script is followed with it unset
EnvsOf(v) ==
    IF v = "bitfinex" THEN Envs
    ELSE {e \in Envs : e.BUY_DAILY_AMOUNT = Unset}

----------------------------------------------------------------------------
VARIABLES
    variant, env,                       \* which script runs, and its environment
    stop_at,                            \* the tick at which the process is no longer followed
    now, next_run, pending, pc,         \* clock, scheduler, position of the process
    cycle_log,                          \* the calls of run_strategy so far: day and caller
    cache_file,                         \* ./btc_usdt_historical.csv
    client_ids, id_reused,              \* identifiers sent so far; one was sent twice
    attempt, last_response,             \* retry loop index; last upstream answer
    fng_value, btc_df, effective_ma_period, ma_sum, current_price,
    buy_fng, buy_ma, tier, btc_amount,  \* locals of compute_buy_decision
    result, emitted, unexpected,        \* returned outcome; what run_strategy logged
    history_requests, order_attempts, order_amount, order_accepted,
    venue_executed,                     \* orders of this decision the venue executed
    daily_log, daily_accepted,          \* make_daily_purchase (Bitfinex)
    log, order_outcome,                 \* lines logged besides the outcome; the words
                                        \* of the string the order block returned
    fng_requests, price_requests, sleeps \* requests and time.sleep(delay) calls of the cycle

cfgVars == <<variant, env, stop_at>>
schedVars == <<now, next_run, pending>>
idVars == <<client_ids, id_reused>>
localVars == <<fng_value, btc_df, effective_ma_period, ma_sum, current_price,
               buy_fng, buy_ma, tier, btc_amount>>
outVars == <<result, emitted, unexpected>>
countVars == <<history_requests, order_attempts, order_amount, order_accepted,
               venue_executed>>
dailyVars == <<daily_log, daily_accepted>>
textVars == <<log, order_outcome>>
trafficVars == <<fng_requests, price_requests, sleeps>>

vars == <<variant, env, stop_at, now, next_run, pending, pc, cycle_log,
          log, order_outcome, fng_requests, price_requests, sleeps,
          cache_file, client_ids,
          id_reused, attempt, last_response, fng_value, btc_df,
          effective_ma_period, ma_sum, current_price, buy_fng, buy_ma, tier,
          btc_amount, result, emitted, unexpected, history_requests,
          order_attempts, order_amount, order_accepted, venue_executed,
          daily_log, daily_accepted>>

\* the cache file: absent, unreadable, or a table of (timestamp, close) rows
NoFile == [state |-> "absent", rows |-> <<>>]
Corrupt == [state |-> "corrupt", rows |-> <<>>]
File(rows) == [state |-> "table", rows |-> rows]

NoResponse == [op |-> "none", status |-> "none", body |-> <<>>]
NoResult == "(none)"
Raised == "(NameError raised)"
NoOutcome == [text |-> NoResult]

----------------------------------------------------------------------------
(* The scheduler (schedule.every().day.at(trigger_time)) *)

\* (variant: the trigger of the current day, also when it has passed)
NextTrigger_NotAdvanced(t) == Today(t) * TicksPerDay + TriggerTick

\* the first tick strictly after t that falls on the trigger time
NextTrigger(t) ==
    LET d == Today(t) * TicksPerDay + TriggerTick
    IN  IF d > t THEN d ELSE d + TicksPerDay

\* (variant: the signal cycle is registered and run before the daily purchase)
Jobs_StrategyFirst(v) == IF v = "bitfinex" THEN <<"strategy", "daily">> ELSE <<"strategy">>

\* the jobs main registers, in registration order
Jobs(v) == IF v = "bitfinex" THEN <<"daily", "strategy">> ELSE <<"strategy">>

\* where the process goes when a job has returned
AfterJobPc(q) == IF q = <<>> THEN "loop" ELSE Head(q)
AfterJobPending(q) == IF q = <<>> THEN <<>> ELSE Tail(q)

\* (variant: the Bitfinex list is the CoinEx list, without BUY_DAILY_AMOUNT)
required_vars_CoinexList(v) ==
    {"API_KEY", "API_SECRET", "TRIGGER_TIME", "FNG_THRESHOLD_PERCENT",
     "MA_THRESHOLD_PERCENT"}

\* required_vars of validate_env_vars (API_KEY stands for COINEX_API_KEY or
\* BITFINEX_API_KEY, API_SECRET likewise)
required_vars(v) ==
    {"API_KEY", "API_SECRET", "TRIGGER_TIME", "FNG_THRESHOLD_PERCENT",
     "MA_THRESHOLD_PERCENT"}
    \cup (IF v = "bitfinex" THEN {"BUY_DAILY_AMOUNT"} ELSE {})

\* os.environ.get(var) is truthy
Present(e, var) ==
    CASE var \in {"API_KEY", "API_SECRET"} -> e[var]
      [] var = "TRIGGER_TIME" -> e[var] # "unset"
      [] OTHER -> IsSet(e[var])

\* missing = [var for var in required_vars if not os.environ.get(var)]
missing(v, e) == {var \in required_vars(v) : ~Present(e, var)}

\* validate_env_vars: every required variable is set and non-empty
validate_env_vars(v, e) == missing(v, e) = {}

\* the lines main logs before it returns early
MissingLine(names) == [line |-> "Error: Missing environment variables", names |-> names]
TriggerLine == [line |-> "Error: TRIGGER_TIME not set or invalid"]

----------------------------------------------------------------------------
(* Retry policy shared by the price, history and order functions *)

\* (variant: a failed attempt is never followed by another one)
RetryExhausted_NoRetry(a) == TRUE

\* (variant: the loop gives up one failed attempt too late)
RetryExhausted_OneMore(a) == ~(a < retries)

\* "if attempt < retries - 1: sleep else: raise", on a failed attempt
RetryExhausted(a) == ~(a < retries - 1)

\* (variant: the delay is taken after every failed attempt, the last included)
SleepAfterFailure_Always(a) == TRUE

\* time.sleep(delay) is called after failed attempt a
SleepAfterFailure(a) == a < retries - 1

Sleeps(a) == IF SleepAfterFailure(a) THEN 1 ELSE 0

----------------------------------------------------------------------------
(* Historical data *)

Range(s) == {s[i] : i \in DOMAIN s}
Min(a, b) == IF a <= b THEN a ELSE b

\* (variant: a failed save is not caught and fails the attempt)
OnSaveError_Propagates == "raise"

\* the inner try / except around the save: log a warning, go on
OnSaveError == "ignore"

SaveFailedLine == [line |-> "Failed to save cache"]

\* daily candles the venue can return at time t: yesterday's and today's
Candles(t) == [timestamp : (Today(t) - 1)..Today(t), close : Closes]

\* the rows of an upstream answer: any order, repeated days allowed
Payloads(t) == UNION {[1..n -> Candles(t)] : n \in 0..MaxLen}

HistoryResponses(t) ==
    {[status |-> "error", body |-> <<>>]}
    \cup {[status |-> "ok", body |-> p] : p \in Payloads(t)}

PriceResponses ==
    {[status |-> "error", body |-> 0]}
    \cup {[status |-> "ok", body |-> p] : p \in Prices}

\* (variant: an answer without rows is not treated as a failure)
HistoryAttemptFails_StatusOnly(resp) == resp.status # "ok"

\* an attempt of the history fetch fails: HTTP / API error, or no rows
HistoryAttemptFails(resp) == resp.status # "ok" \/ resp.body = <<>>

IsSortedFrame(s) ==
    \A i \in DOMAIN s : \A j \in DOMAIN s : i < j => s[i].timestamp <= s[j].timestamp

Count(s, c) == Cardinality({i \in DOMAIN s : s[i] = c})

\* df.sort_index(): ascending by timestamp; the default sort is not stable,
\* so rows of one timestamp come out in any order
SortIndex(records) ==
    {s \in [DOMAIN records -> Range(records)] :
        /\ IsSortedFrame(s)
        /\ \A c \in Range(records) : Count(s, c) = Count(records, c)}

\* df.index.max()
LatestDate(rows) ==
    CHOOSE d \in {rows[i].timestamp : i \in DOMAIN rows} :
        \A i \in DOMAIN rows : rows[i].timestamp <= d

\* (pd.Timestamp.now() - latest_date).days
AgeDays(rows, t) == (t - LatestDate(rows) * TicksPerDay) \div TicksPerDay

\* (variant: the number of points is not tested)
CacheValid_AnyLength(rows, days, t) ==
    /\ Len(rows) > 0
    /\ AgeDays(rows, t) < 1

\* (variant: a cache whose newest point is one day old is still reused)
CacheValid_OneDayOld(rows, days, t) ==
    /\ Len(rows) >= days
    /\ Len(rows) > 0
    /\ AgeDays(rows, t) <= 1

\* len(df) >= days and (pd.Timestamp.now() - latest_date).days < 1
CacheValid(rows, days, t) ==
    /\ Len(rows) >= days
    /\ Len(rows) > 0
    /\ AgeDays(rows, t) < 1

\* (variant: a series that fails the check is left on disk)
DiscardInvalid_Keep(f) == f

\* os.remove(cache_file), in the else branch of the validity check
DiscardInvalid(f) == NoFile

RECURSIVE SumCloses(_, _, _)
SumCloses(df, from, to) ==
    IF from > to THEN 0 ELSE df[from].close + SumCloses(df, from + 1, to)

\* (variant: the window is not adjusted to a short series)
EffectivePeriod_Unadjusted(days, n) == days

\* effective_ma_period = min(ma_period, len(btc_df))
EffectivePeriod(days, n) == Min(days, n)

\* pd.isna(latest_ma): the window holds fewer than w observations
IsNa(df, w) == w > Len(df)

\* (variant: the mean is read at the first complete window, .iloc[w - 1])
WindowSum_Oldest(df, w) == SumCloses(df, 1, w)

\* the last value of df['close'].rolling(window=w).mean(), times w
WindowSum(df, w) == SumCloses(df, Len(df) - w + 1, Len(df))

----------------------------------------------------------------------------
(* The decision *)

\* (variant: the test for an absent value is missing)
BuyFng_NoPresenceTest(fng, threshold) == fng <= threshold

\* fng_value is not None and fng_value <= fng_threshold
BuyFng(fng, threshold) == fng # None /\ fng <= threshold

\* (variant: the comparison with the moving average is strict)
BuyMa_Strict(price, pct, sum, w) == price * 100 * w < (100 - pct) * sum

\* current_price <= (1 - ma_threshold) * latest_ma, latest_ma = sum / w
BuyMa(price, pct, sum, w) == price * 100 * w <= (100 - pct) * sum

\* (variant: the final else falls into the MA branch)
Tier_NoElse(bf, bm) ==
    IF bf /\ bm THEN "overlap"
    ELSE IF bf THEN "fng"
    ELSE "ma"

\* the if / elif / elif / else chain
Tier(bf, bm) ==
    IF bf /\ bm THEN "overlap"
    ELSE IF bf THEN "fng"
    ELSE IF bm THEN "ma"
    ELSE "none"

\* float(x) if x else default
AmountOrDefault(v, default) == IF IsSet(v) THEN v.val ELSE default

Amount(n) == [raised |-> "no", amount |-> n]
ValueError == [raised |-> "ValueError", amount |-> 0]
NameError == [raised |-> "NameError", amount |-> 0]

\* "if btc_amount <= 0: raise ValueError"
CheckPositive(n) == IF n <= 0 THEN ValueError ELSE Amount(n)

\* the amount of a tier, or the exception the tier's branch raises.  The
\* Bitfinex script tests the undefined name buy_overlap_order_amount in the
\* overlap branch, and in the MA branch assigns btc_order_amount, so that
\* btc_amount is unbound when it is compared with 0.
ResolveAmount(v, t, e) ==
    CASE t = "overlap" ->
            IF v = "bitfinex" THEN NameError
            ELSE IF IsSet(e.BUY_OVERLAP_AMOUNT) /\ ~FloatOk(e.BUY_OVERLAP_AMOUNT)
                 THEN ValueError
                 ELSE CheckPositive(AmountOrDefault(e.BUY_OVERLAP_AMOUNT, DEFAULT_OVERLAP_AMOUNT))
      [] t = "fng" ->
            IF IsSet(e.BUY_FNG_AMOUNT) /\ ~FloatOk(e.BUY_FNG_AMOUNT)
            THEN ValueError
            ELSE CheckPositive(AmountOrDefault(e.BUY_FNG_AMOUNT, DEFAULT_FNG_AMOUNT))
      [] t = "ma" ->
            IF IsSet(e.BUY_MA_AMOUNT) /\ ~FloatOk(e.BUY_MA_AMOUNT)
            THEN ValueError
            ELSE IF v = "bitfinex" THEN NameError
                 ELSE CheckPositive(AmountOrDefault(e.BUY_MA_AMOUNT, DEFAULT_MA_AMOUNT))
      [] OTHER -> Amount(0)

\* the answers of the trading API to one submission.  An accepted CoinEx
\* order is data['data'], which the caller indexes with 'id'.
OrderIds == {"order-1"}

OrderResponses(v) ==
    {[status |-> "error", body |-> <<>>]}
    \cup {[status |-> "accepted", body |-> [has_id |-> h, id |-> i]] :
             h \in (IF v = "coinex" THEN BOOLEAN ELSE {TRUE}), i \in OrderIds}

\* what the venue did with a submission the client saw answered by resp: an
\* acknowledged order was executed; one the client saw fail (HTTP error,
\* timeout of requests.post, rejection) was executed or not
VenueExecuted(resp) == IF resp.status = "accepted" THEN {TRUE} ELSE BOOLEAN

\* the words of `reason`
Reason(t) ==
    CASE t = "overlap" -> <<"Overlap", "Fear and Greed", "Price below MA">>
      [] t = "fng" -> <<"Fear and Greed">>
      [] OTHER -> <<"Price below MA">>

\* outcome strings of compute_buy_decision
HistoryFailed == "No purchase - Failed to fetch or process historical data"
PriceFailed == "No purchase - Failed to fetch price"
InvalidThresholds == "No purchase - Invalid threshold values"
ConditionsNotMet == "No purchase - Conditions not met"
InvalidAmount == "No purchase - Invalid buy amount"
Bought == "Bought"
FailedToBuy == "Failed to buy"

\* the log line of a placed order, and the string returned after it
BoughtLine(amount, t, id) ==
    [line |-> Bought, amount |-> amount, reason |-> Reason(t), order_id |-> id]
BoughtOutcome(amount, t) ==
    [text |-> Bought, amount |-> amount, reason |-> Reason(t)]

\* the string returned when the order block raised
FailedOutcome(amount, t) ==
    [text |-> FailedToBuy, amount |-> amount, reason |-> Reason(t)]

\* (variant: the history handler logs the error and falls through)
OnHistoryError_FallThrough == [result |-> NoResult, pc |-> "price"]

\* what compute_buy_decision does with an exception of the history block,
\* of the price block and of the order block: log it, return the outcome
OnHistoryError == [result |-> HistoryFailed, pc |-> "emit"]
OnPriceError == [result |-> PriceFailed, pc |-> "emit"]
OnOrderError == [result |-> FailedToBuy, pc |-> "emit"]

----------------------------------------------------------------------------
(* Initial state: the process is about to enter main() *)

\* nothing has run yet
Idle ==
    /\ next_run = 0
    /\ pending = <<>>
    /\ pc = "main"
    /\ client_ids = {}
    /\ id_reused = FALSE
    /\ attempt = 0
    /\ last_response = NoResponse
    /\ fng_value = None
    /\ btc_df = <<>>
    /\ effective_ma_period = 0
    /\ ma_sum = 0
    /\ current_price = 0
    /\ buy_fng = FALSE
    /\ buy_ma = FALSE
    /\ tier = "none"
    /\ btc_amount = 0
    /\ result = NoResult
    /\ emitted = <<>>
    /\ unexpected = FALSE
    /\ history_requests = 0
    /\ order_attempts = 0
    /\ order_amount = 0
    /\ order_accepted = FALSE
    /\ venue_executed = 0
    /\ daily_log = "none"
    /\ daily_accepted = FALSE
    /\ cycle_log = <<>>
    /\ log = {}
    /\ order_outcome = NoOutcome
    /\ fng_requests = 0
    /\ price_requests = 0
    /\ sleeps = 0

Init ==
    /\ variant \in Variants
    /\ env \in EnvsOf(variant)
    /\ stop_at = MaxTime
    /\ now \in {FirstTick, FirstTick + 1}
    /\ cache_file \in {NoFile, Corrupt,
                       File(<<[timestamp |-> 0, close |-> 100]>>)}
    /\ Idle

----------------------------------------------------------------------------
(* main() and the scheduler loop *)

\* main: validate, register the jobs, run them once at startup
Main ==
    /\ pc = "main"
    /\ IF ~validate_env_vars(variant, env)
       THEN /\ log' = {MissingLine(missing(variant, env))}
            /\ pc' = "exited"
            /\ UNCHANGED <<next_run, pending>>
       ELSE IF env.TRIGGER_TIME # "valid"
       THEN /\ log' = {TriggerLine}
            /\ pc' = "exited"
            /\ UNCHANGED <<next_run, pending>>
       ELSE /\ next_run' = NextTrigger(now)
            /\ pc' = Head(Jobs(variant))
            /\ pending' = Tail(Jobs(variant))
            /\ UNCHANGED log
    /\ UNCHANGED <<cfgVars, now, cycle_log, cache_file, idVars, attempt,
                   last_response, localVars, outVars, countVars, dailyVars,
                   order_outcome, trafficVars>>

\* while True: schedule.run_pending(); time.sleep(60)
Loop ==
    /\ pc = "loop"
    /\ now < stop_at
    /\ now' = now + 1
    /\ IF now' >= next_run
       THEN /\ next_run' = NextTrigger(now')
            /\ pc' = Head(Jobs(variant))
            /\ pending' = Tail(Jobs(variant))
       ELSE UNCHANGED <<next_run, pc, pending>>
    /\ UNCHANGED <<cfgVars, cycle_log, cache_file, idVars, attempt, last_response,
                   localVars, outVars, countVars, dailyVars, textVars, trafficVars>>

\* the job has returned: the next pending job, or back to the loop
FinishJob ==
    /\ pc' = AfterJobPc(pending)
    /\ pending' = AfterJobPending(pending)

----------------------------------------------------------------------------
(* make_daily_purchase (Bitfinex variant) *)

DailyStart ==
    /\ pc = "daily"
    /\ daily_accepted' = FALSE
    /\ attempt' = 0
    /\ IF ~FloatOk(env.BUY_DAILY_AMOUNT)
       THEN daily_log' = "failed" /\ FinishJob
       ELSE IF env.BUY_DAILY_AMOUNT.val <= 0
       THEN daily_log' = "skipped" /\ FinishJob
       ELSE daily_log' = "none" /\ pc' = "daily_order" /\ UNCHANGED pending
    /\ UNCHANGED <<cfgVars, now, next_run, cycle_log, cache_file, idVars,
                   last_response, localVars, outVars, countVars, textVars,
                   trafficVars>>

DailyOrderAttempt ==
    /\ pc = "daily_order"
    /\ \E id \in ClientIds, resp \in OrderResponses(variant) :
         /\ client_ids' = client_ids \cup {id}
         /\ id_reused' = (id_reused \/ id \in client_ids)
         /\ last_response' = [op |-> "daily_order", status |-> resp.status, body |-> resp.body]
         /\ IF resp.status = "accepted"
            THEN /\ daily_accepted' = TRUE
                 /\ attempt' = 0
                 /\ pc' = "daily_price"
                 /\ UNCHANGED <<pending, daily_log>>
            ELSE IF RetryExhausted(attempt)
            THEN /\ daily_log' = "failed"
                 /\ FinishJob
                 /\ UNCHANGED <<attempt, daily_accepted>>
            ELSE /\ attempt' = attempt + 1
                 /\ UNCHANGED <<pc, pending, daily_log, daily_accepted>>
    /\ UNCHANGED <<cfgVars, now, next_run, cycle_log, cache_file, localVars,
                   outVars, countVars, textVars, trafficVars>>

DailyPriceAttempt ==
    /\ pc = "daily_price"
    /\ \E resp \in PriceResponses :
         /\ last_response' = [op |-> "daily_price", status |-> resp.status, body |-> resp.body]
         /\ IF resp.status = "ok"
            THEN /\ daily_log' = "bought"
                 /\ FinishJob
                 /\ UNCHANGED attempt
            ELSE IF RetryExhausted(attempt)
            THEN /\ daily_log' = "failed"
                 /\ FinishJob
                 /\ UNCHANGED attempt
            ELSE /\ attempt' = attempt + 1
                 /\ UNCHANGED <<pc, pending, daily_log>>
    /\ UNCHANGED <<cfgVars, now, next_run, cycle_log, cache_file, idVars,
                   localVars, outVars, countVars, daily_accepted, textVars,
                   trafficVars>>

----------------------------------------------------------------------------
(* run_strategy -> compute_buy_decision *)

\* the cycle starts: one request to the Fear and Greed API, never retried
FetchSentiment ==
    /\ pc = "strategy"
    /\ \E r \in FngValues \cup {None} :
         /\ fng_value' = r
         /\ last_response' = [op |-> "fng",
                              status |-> IF r = None THEN "error" ELSE "ok",
                              body |-> r]
    /\ pc' = "cache"
    /\ attempt' = 0
    /\ btc_df' = <<>>
    /\ effective_ma_period' = 0
    /\ ma_sum' = 0
    /\ current_price' = 0
    /\ buy_fng' = FALSE
    /\ buy_ma' = FALSE
    /\ tier' = "none"
    /\ btc_amount' = 0
    /\ result' = NoResult
    /\ emitted' = <<>>
    /\ unexpected' = FALSE
    /\ history_requests' = 0
    /\ order_attempts' = 0
    /\ order_amount' = 0
    /\ order_accepted' = FALSE
    /\ venue_executed' = 0
    /\ cycle_log' = Append(cycle_log,
                           [day |-> Today(now),
                            by |-> IF cycle_log = <<>> THEN "startup" ELSE "schedule"])
    /\ log' = {}
    /\ order_outcome' = NoOutcome
    /\ fng_requests' = 1
    /\ price_requests' = 0
    /\ sleeps' = 0
    /\ UNCHANGED <<cfgVars, schedVars, cache_file, idVars, dailyVars>>

\* get_*_historical_data, first part: reuse the cache file or discard it
LoadCache ==
    /\ pc = "cache"
    /\ IF cache_file.state = "table" /\ CacheValid(cache_file.rows, ma_period, now)
       THEN /\ btc_df' = cache_file.rows
            /\ pc' = "indicators"
            /\ UNCHANGED cache_file
       ELSE /\ cache_file' = IF cache_file.state = "table"
                             THEN DiscardInvalid(cache_file)
                             ELSE cache_file
            /\ pc' = "history"
            /\ UNCHANGED btc_df
    /\ attempt' = 0
    /\ UNCHANGED <<cfgVars, schedVars, cycle_log, idVars, last_response, fng_value,
                   effective_ma_period, ma_sum, current_price, buy_fng, buy_ma,
                   tier, btc_amount, outVars, countVars, dailyVars, textVars,
                   trafficVars>>

\* get_*_historical_data, one pass of the retry loop, the upstream answering
\* with one of `responses`; the save of a fetched frame succeeds or fails
HistoryAttemptFrom(responses) ==
    /\ pc = "history"
    /\ history_requests' = history_requests + 1
    /\ \E resp \in responses, saved \in BOOLEAN :
         /\ last_response' = [op |-> "history", status |-> resp.status, body |-> resp.body]
         /\ IF ~HistoryAttemptFails(resp) /\ (saved \/ OnSaveError = "ignore")
            THEN /\ \E df \in SortIndex(resp.body) :
                      /\ btc_df' = df
                      /\ cache_file' = IF saved THEN File(df) ELSE cache_file
                 /\ log' = IF saved THEN log ELSE log \cup {SaveFailedLine}
                 /\ pc' = "indicators"
                 /\ UNCHANGED <<attempt, result, sleeps>>
            ELSE IF RetryExhausted(attempt)
            THEN /\ result' = OnHistoryError.result
                 /\ pc' = OnHistoryError.pc
                 /\ sleeps' = sleeps + Sleeps(attempt)
                 /\ UNCHANGED <<attempt, btc_df, cache_file, log>>
            ELSE /\ attempt' = attempt + 1
                 /\ sleeps' = sleeps + Sleeps(attempt)
                 /\ UNCHANGED <<pc, result, btc_df, cache_file, log>>
    /\ UNCHANGED <<cfgVars, schedVars, cycle_log, idVars, fng_value,
                   effective_ma_period, ma_sum, current_price, buy_fng, buy_ma,
                   tier, btc_amount, emitted, unexpected, order_attempts,
                   order_amount, order_accepted, venue_executed, dailyVars,
                   order_outcome, fng_requests, price_requests>>

HistoryAttempt == HistoryAttemptFrom(HistoryResponses(now))

\* effective_ma_period and the latest moving average
ComputeIndicators ==
    /\ pc = "indicators"
    /\ IF btc_df = <<>>
       THEN /\ result' = OnHistoryError.result
            /\ pc' = OnHistoryError.pc
            /\ UNCHANGED <<effective_ma_period, ma_sum>>
       ELSE LET w == EffectivePeriod(ma_period, Len(btc_df))
            IN  /\ effective_ma_period' = w
                /\ IF IsNa(btc_df, w)
                   THEN /\ result' = OnHistoryError.result
                        /\ pc' = OnHistoryError.pc
                        /\ UNCHANGED ma_sum
                   ELSE /\ ma_sum' = WindowSum(btc_df, w)
                        /\ pc' = "price"
                        /\ UNCHANGED result
    /\ attempt' = 0
    /\ UNCHANGED <<cfgVars, schedVars, cycle_log, cache_file, idVars, last_response,
                   fng_value, btc_df, current_price, buy_fng, buy_ma, tier,
                   btc_amount, emitted, unexpected, countVars, dailyVars,
                   textVars, trafficVars>>

\* get_*_price, one pass of the retry loop, the upstream answering with one
\* of `responses`
PriceAttemptFrom(responses) ==
    /\ pc = "price"
    /\ price_requests' = price_requests + 1
    /\ \E resp \in responses :
         /\ last_response' = [op |-> "price", status |-> resp.status, body |-> resp.body]
         /\ IF resp.status = "ok"
            THEN /\ current_price' = resp.body
                 /\ pc' = "decide"
                 /\ UNCHANGED <<attempt, result, sleeps>>
            ELSE IF RetryExhausted(attempt)
            THEN /\ result' = OnPriceError.result
                 /\ pc' = OnPriceError.pc
                 /\ sleeps' = sleeps + Sleeps(attempt)
                 /\ UNCHANGED <<attempt, current_price>>
            ELSE /\ attempt' = attempt + 1
                 /\ sleeps' = sleeps + Sleeps(attempt)
                 /\ UNCHANGED <<pc, result, current_price>>
    /\ UNCHANGED <<cfgVars, schedVars, cycle_log, cache_file, idVars, fng_value,
                   btc_df, effective_ma_period, ma_sum, buy_fng, buy_ma, tier,
                   btc_amount, emitted, unexpected, countVars, dailyVars,
                   textVars, fng_requests>>

PriceAttempt == PriceAttemptFrom(PriceResponses)

\* thresholds, the two signals, the tier and its amount
Decide ==
    /\ pc = "decide"
    /\ attempt' = 0
    /\ IF ~(FloatOk(env.FNG_THRESHOLD_PERCENT) /\ FloatOk(env.MA_THRESHOLD_PERCENT))
       THEN /\ result' = InvalidThresholds
            /\ pc' = "emit"
            /\ UNCHANGED <<buy_fng, buy_ma, tier, btc_amount>>
       ELSE LET bf == BuyFng(fng_value, env.FNG_THRESHOLD_PERCENT.val)
                bm == BuyMa(current_price, env.MA_THRESHOLD_PERCENT.val,
                            ma_sum, effective_ma_period)
                t == Tier(bf, bm)
                r == ResolveAmount(variant, t, env)
            IN  /\ buy_fng' = bf
                /\ buy_ma' = bm
                /\ tier' = t
                /\ IF t = "none"
                   THEN result' = ConditionsNotMet /\ pc' = "emit" /\ UNCHANGED btc_amount
                   ELSE IF r.raised = "ValueError"
                   THEN result' = InvalidAmount /\ pc' = "emit" /\ UNCHANGED btc_amount
                   ELSE IF r.raised = "NameError"
                   THEN result' = Raised /\ pc' = "emit" /\ UNCHANGED btc_amount
                   ELSE btc_amount' = r.amount /\ pc' = "order" /\ UNCHANGED result
    /\ UNCHANGED <<cfgVars, schedVars, cycle_log, cache_file, idVars,
                   last_response, fng_value, btc_df, effective_ma_period, ma_sum,
                   current_price, emitted, unexpected, countVars, dailyVars,
                   textVars, trafficVars>>

\* coinex_buy_order / bitfinex_buy_order, one pass of the retry loop, and
\* on acceptance the caller's "Bought" message
OrderAttempt ==
    /\ pc = "order"
    /\ order_attempts' = order_attempts + 1
    /\ order_amount' = btc_amount
    /\ \E id \in ClientIds, resp \in OrderResponses(variant) :
         /\ client_ids' = client_ids \cup {id}
         /\ id_reused' = (id_reused \/ id \in client_ids)
         /\ last_response' = [op |-> "order", status |-> resp.status, body |-> resp.body]
         /\ \E executed \in VenueExecuted(resp) :
              venue_executed' = venue_executed + (IF executed THEN 1 ELSE 0)
         /\ IF resp.status = "accepted"
            THEN /\ order_accepted' = TRUE
                 /\ IF resp.body.has_id
                    THEN /\ log' = log \cup {BoughtLine(btc_amount, tier, resp.body.id)}
                         /\ result' = Bought
                         /\ order_outcome' = BoughtOutcome(btc_amount, tier)
                    ELSE /\ result' = OnOrderError.result
                         /\ order_outcome' = FailedOutcome(btc_amount, tier)
                         /\ UNCHANGED log
                 /\ pc' = "emit"
                 /\ UNCHANGED <<attempt, sleeps>>
            ELSE IF RetryExhausted(attempt)
            THEN /\ result' = OnOrderError.result
                 /\ order_outcome' = FailedOutcome(btc_amount, tier)
                 /\ pc' = OnOrderError.pc
                 /\ sleeps' = sleeps + Sleeps(attempt)
                 /\ UNCHANGED <<attempt, order_accepted, log>>
            ELSE /\ attempt' = attempt + 1
                 /\ sleeps' = sleeps + Sleeps(attempt)
                 /\ UNCHANGED <<pc, result, order_accepted, log, order_outcome>>
    /\ UNCHANGED <<cfgVars, schedVars, cycle_log, cache_file, localVars, emitted,
                   unexpected, history_requests, dailyVars, fng_requests,
                   price_requests>>

\* run_strategy: log the returned outcome, or the escaped exception
Emit ==
    /\ pc = "emit"
    /\ IF result = Raised
       THEN unexpected' = TRUE /\ UNCHANGED emitted
       ELSE emitted' = Append(emitted, result) /\ UNCHANGED unexpected
    /\ FinishJob
    /\ UNCHANGED <<cfgVars, now, next_run, cycle_log, cache_file, idVars, attempt,
                   last_response, localVars, result, countVars, dailyVars,
                   textVars, trafficVars>>

Next ==
    \/ Main
    \/ Loop
    \/ DailyStart
    \/ DailyOrderAttempt
    \/ DailyPriceAttempt
    \/ FetchSentiment
    \/ LoadCache
    \/ HistoryAttempt
    \/ ComputeIndicators
    \/ PriceAttempt
    \/ Decide
    \/ OrderAttempt
    \/ Emit

Spec == Init /\ [][Next]_vars

----------------------------------------------------------------------------
(* The series specification: one call of the history function that finds no *)
(* cache, and the indicators and signals computed from what it returns,     *)
(* with upstream answers of several closes, prices and lengths              *)

SeriesCloses == {80, 100, 120}
SeriesPrices == {81, 90, 91}
SeriesFng == FngValues \cup {25, None}

SeriesCandles(t) == [timestamp : (Today(t) - 1)..Today(t), close : SeriesCloses]

SeriesPayloads(t) == UNION {[1..n -> SeriesCandles(t)] : n \in 0..MaxSeries}

SeriesHistoryResponses(t) ==
    {[status |-> "error", body |-> <<>>]}
    \cup {[status |-> "ok", body |-> p] : p \in SeriesPayloads(t)}

SeriesPriceResponses ==
    {[status |-> "error", body |-> 0]}
    \cup {[status |-> "ok", body |-> p] : p \in SeriesPrices}

\* thresholds 25 and 10 %, no amount configured, no daily purchase
PlainEnv(v) ==
    MkEnv(TRUE, "valid", Num(25), Unset, Unset, Unset,
          IF v = "bitfinex" THEN Num(0) ELSE Unset)

\* the startup cycle has fetched the sentiment and found no cache file
SeriesInit ==
    /\ variant \in Variants
    /\ env = PlainEnv(variant)
    /\ stop_at = MaxTime
    /\ now = FirstTick
    /\ next_run = NextTrigger(now)
    /\ pending = <<>>
    /\ pc = "history"
    /\ cycle_log = <<[day |-> Today(now), by |-> "startup"]>>
    /\ cache_file = NoFile
    /\ client_ids = {}
    /\ id_reused = FALSE
    /\ attempt = 0
    /\ fng_value \in SeriesFng
    /\ last_response = [op |-> "fng",
                        status |-> IF fng_value = None THEN "error" ELSE "ok",
                        body |-> fng_value]
    /\ btc_df = <<>>
    /\ effective_ma_period = 0
    /\ ma_sum = 0
    /\ current_price = 0
    /\ buy_fng = FALSE
    /\ buy_ma = FALSE
    /\ tier = "none"
    /\ btc_amount = 0
    /\ result = NoResult
    /\ emitted = <<>>
    /\ unexpected = FALSE
    /\ history_requests = 0
    /\ order_attempts = 0
    /\ order_amount = 0
    /\ order_accepted = FALSE
    /\ venue_executed = 0
    /\ daily_log = IF variant = "bitfinex" THEN "skipped" ELSE "none"
    /\ daily_accepted = FALSE
    /\ log = {}
    /\ order_outcome = NoOutcome
    /\ fng_requests = 1
    /\ price_requests = 0
    /\ sleeps = 0

SeriesHistoryAttempt == HistoryAttemptFrom(SeriesHistoryResponses(now))

SeriesPriceAttempt == PriceAttemptFrom(SeriesPriceResponses)

SeriesNext ==
    \/ SeriesHistoryAttempt
    \/ ComputeIndicators
    \/ SeriesPriceAttempt
    \/ Decide

SeriesSpec == SeriesInit /\ [][SeriesNext]_vars

----------------------------------------------------------------------------
(* The scheduling specification: the process is followed over several days, *)
(* with the plain environment and no cache file                             *)

\* thresholds 25 and 10 %, no amount configured, a daily purchase of 0.0001
SchedEnv(v) ==
    MkEnv(TRUE, "valid", Num(25), Unset, Unset, Unset,
          IF v = "bitfinex" THEN Num(1) ELSE Unset)

SchedInit ==
    /\ variant \in Variants
    /\ env = SchedEnv(variant)
    /\ stop_at = FirstTick + SchedHorizon
    /\ now \in {FirstTick, FirstTick + 1}
    /\ cache_file = NoFile
    /\ Idle

SchedSpec == SchedInit /\ [][Next]_vars

----------------------------------------------------------------------------
(* The cache specification: the process starts with a readable cache file,  *)
(* as an earlier run's successful fetch left it                             *)

\* the files df.to_csv can have written up to time t: a fetched frame, sorted
\* and not empty, of yesterday's and today's candles
CacheFiles(t) ==
    {File(df) : df \in UNION {SortIndex(p) : p \in Payloads(t) \ {<<>>}}}

CacheInit ==
    /\ variant \in Variants
    /\ env = SchedEnv(variant)
    /\ stop_at = MaxTime
    /\ now \in {FirstTick, FirstTick + 1}
    /\ cache_file \in CacheFiles(now)
    /\ Idle

CacheSpec == CacheInit /\ [][Next]_vars

----------------------------------------------------------------------------
(* Properties *)

\* compute_buy_decision has returned or raised and run_strategy has logged it
CycleEnded == result # NoResult /\ pc # "emit"

OverlapAmount == AmountOrDefault(env.BUY_OVERLAP_AMOUNT, DEFAULT_OVERLAP_AMOUNT)
FngAmount == AmountOrDefault(env.BUY_FNG_AMOUNT, DEFAULT_FNG_AMOUNT)
MaAmount == AmountOrDefault(env.BUY_MA_AMOUNT, DEFAULT_MA_AMOUNT)
Usable(v, default) ==
    (IsSet(v) => FloatOk(v)) /\ AmountOrDefault(v, default) > 0

\* C1: in either variant, a cycle in which both signals are true (and whose
\* overlap amount is a positive number) submits an order for the overlap
\* amount, and an order is always for the amount of the highest tier that
\* fired: overlap, then FNG-only, then MA-only.
C1_OverlapTierOrdered ==
    /\ (CycleEnded /\ buy_fng /\ buy_ma
            /\ Usable(env.BUY_OVERLAP_AMOUNT, DEFAULT_OVERLAP_AMOUNT))
        => (tier = "overlap" /\ order_attempts >= 1 /\ order_amount = OverlapAmount)
    /\ (order_attempts >= 1 /\ buy_fng /\ ~buy_ma) => order_amount = FngAmount
    /\ (order_attempts >= 1 /\ ~buy_fng /\ buy_ma) => order_amount = MaAmount

\* C2: every finished cycle has logged exactly one outcome, the one
\* compute_buy_decision returned, and never an "Unexpected error" instead.
C2_OneOutcomePerCycle ==
    /\ Len(emitted) <= 1
    /\ ~unexpected
    /\ (CycleEnded => emitted = <<result>>)

\* C3: an order is submitted from compute_buy_decision only when buy_fng or
\* buy_ma is true; when the decision is reached with both false the outcome
\* is "No purchase - Conditions not met" and no order was attempted.
C3_OrderOnlyOnSignal ==
    /\ (pc = "order" \/ order_attempts > 0) => (buy_fng \/ buy_ma)
    /\ (result \notin {NoResult, HistoryFailed, PriceFailed, InvalidThresholds}
            /\ ~buy_fng /\ ~buy_ma)
        => (result = ConditionsNotMet /\ order_attempts = 0)

C3_Witness ==
    /\ emitted = <<ConditionsNotMet>>
    /\ ~buy_fng /\ ~buy_ma
    /\ current_price \in Prices
    /\ order_attempts = 0

HistoryGaveUp ==
    /\ last_response.op = "history"
    /\ (last_response.status # "ok" \/ last_response.body = <<>>)
    /\ pc # "history"

PriceGaveUp ==
    /\ last_response.op = "price"
    /\ last_response.status = "error"
    /\ pc # "price"

\* C4: when the history fetch, the moving average or the price fetch fails,
\* the cycle returns the "No purchase" outcome naming the failure, logs it,
\* attempts no order, and the process is still running its scheduler.
C4_FetchFailureEndsCycle ==
    /\ HistoryGaveUp => result = HistoryFailed
    /\ PriceGaveUp => result = PriceFailed
    /\ result \in {HistoryFailed, PriceFailed} =>
         /\ order_attempts = 0
         /\ pc \notin {"order", "exited"}
         /\ (pc # "emit" => (emitted = <<result>> /\ ~unexpected))

\* a failed cycle is behind, and the next trigger has started the next cycle
C4_Witness ==
    /\ pc = "strategy"
    /\ result \in {HistoryFailed, PriceFailed}
    /\ emitted = <<result>>

\* C5: a failed sentiment fetch leaves fng_value absent and the cycle goes on
\* to the history step; with fng_value absent buy_fng is false and neither
\* the FNG-only nor the overlap tier is chosen.
C5_SentimentFailureDegrades ==
    /\ (last_response.op = "fng" /\ last_response.status = "error")
        => (/\ pc \in {"cache", "history", "indicators", "price"}
            /\ fng_value = None
            /\ result = NoResult)
    /\ (fng_value = None) => (~buy_fng /\ tier \notin {"fng", "overlap"})

\* the sentiment fetch failed and the cycle bought on the MA signal alone
C5_Witness ==
    /\ fng_value = None
    /\ tier = "ma"
    /\ buy_ma
    /\ order_accepted
    /\ emitted = <<Bought>>

\* C6: a retry loop makes at most `retries` attempts, makes another attempt
\* only after a failed one, returns the result of the first attempt that
\* succeeds, and when all attempts failed the cycle's outcome is the failure.
C6_RetrySemantics ==
    /\ pc \in {"price", "history", "order"} => attempt <= retries - 1
    /\ (pc = "price" /\ attempt > 0)
        => (last_response.op = "price" /\ last_response.status = "error")
    /\ (pc = "history" /\ attempt > 0)
        => (/\ last_response.op = "history"
            /\ (last_response.status = "error" \/ last_response.body = <<>>))
    /\ (pc = "order" /\ attempt > 0)
        => (last_response.op = "order" /\ last_response.status = "error")
    /\ (last_response.op = "price" /\ last_response.status = "ok")
        => (pc # "price" /\ current_price = last_response.body)
    /\ (last_response.op = "history" /\ last_response.status = "ok"
            /\ last_response.body # <<>>)
        => (/\ pc # "history"
            /\ btc_df \in SortIndex(last_response.body)
            /\ (pc = "indicators" => history_requests = attempt + 1))
    /\ (last_response.op = "order" /\ last_response.status = "accepted")
        => (/\ pc # "order"
            /\ order_accepted
            /\ (pc = "emit" => order_attempts = attempt + 1))
    /\ PriceGaveUp
        => (result = PriceFailed /\ (pc = "emit" => attempt = retries - 1))
    /\ HistoryGaveUp
        => (result = HistoryFailed /\ history_requests = retries)
    /\ (last_response.op = "order" /\ last_response.status = "error" /\ pc # "order")
        => (result = FailedToBuy /\ order_attempts = retries)
    /\ result = Bought => order_accepted

\* two failed price attempts, then the third one answered
C6_Witness ==
    /\ pc = "decide"
    /\ attempt = retries - 1
    /\ last_response.op = "price"
    /\ last_response.status = "ok"
    /\ current_price = last_response.body

\* C7: no order submission carries a client identifier that an earlier
\* submission of the process carried.
C7_FreshClientIds == ~id_reused

\* "valid": at least ma_period points, the newest less than a day before now
ValidCache(f, t) ==
    /\ f.state = "table"
    /\ Len(f.rows) >= ma_period
    /\ \E i \in DOMAIN f.rows :
         /\ \A j \in DOMAIN f.rows : f.rows[j].timestamp <= f.rows[i].timestamp
         /\ t - f.rows[i].timestamp * TicksPerDay < TicksPerDay

\* C8: the history function returns the cached series without any upstream
\* request exactly when the cache is valid; otherwise it goes on to fetch,
\* every pass of the fetch loop is one request, and a fetch that succeeds at
\* its first attempt has made exactly one.
C8_CacheDecidesFetch ==
    [][ /\ pc = "cache" =>
             /\ (pc' = "indicators" /\ btc_df' = cache_file.rows
                    /\ history_requests' = 0)
                <=> ValidCache(cache_file, now)
             /\ ~ValidCache(cache_file, now)
                => (pc' = "history" /\ history_requests' = 0 /\ attempt' = 0)
        /\ pc = "history" =>
             /\ history_requests = attempt
             /\ history_requests' = history_requests + 1
             /\ (pc' = "indicators" /\ attempt = 0) => history_requests' = 1
      ]_vars

\* the series came from the cache: no request was made in this cycle
C8_Witness ==
    /\ pc = "indicators"
    /\ history_requests = 0
    /\ Len(btc_df) >= ma_period

\* C9: a fetched series that is non-empty but shorter than ma_period is
\* returned as it is, and the cycle goes on with effective_ma_period equal to
\* its length: it does not end with the history failure outcome.
C9_ShortSeriesContinues ==
    /\ (pc = "indicators" /\ last_response.op = "history"
            /\ last_response.status = "ok" /\ last_response.body # <<>>
            /\ Len(last_response.body) < ma_period)
        => (Len(btc_df) = Len(last_response.body) /\ result = NoResult)
    /\ (btc_df # <<>> /\ Len(btc_df) < ma_period /\ pc # "indicators")
        => (/\ effective_ma_period = Len(btc_df)
            /\ ma_sum = SumCloses(btc_df, 1, Len(btc_df))
            /\ result # HistoryFailed)

\* a one-point series, and the cycle has reached the order
C9_Witness ==
    /\ pc = "order"
    /\ btc_df # <<>>
    /\ Len(btc_df) < ma_period
    /\ effective_ma_period = Len(btc_df)
    /\ history_requests >= 1

\* C10: the history function never returns an empty series; an answer
\* without rows is a failed attempt, followed by another attempt or, after
\* the last one, by the history failure outcome.
C10_NoEmptySeries ==
    /\ pc \in {"indicators", "price", "decide", "order"} => btc_df # <<>>
    /\ (last_response.op = "history" /\ last_response.status = "ok"
            /\ last_response.body = <<>>)
        => \/ (pc = "history" /\ attempt >= 1)
           \/ (/\ pc # "history"
               /\ result = HistoryFailed
               /\ history_requests = retries
               /\ btc_df = <<>>)

\* the last of the attempts was answered without rows, and the cycle failed
C10_Witness ==
    /\ last_response.op = "history"
    /\ last_response.status = "ok"
    /\ last_response.body = <<>>
    /\ history_requests = retries
    /\ emitted = <<HistoryFailed>>

StrictlyIncreasing(s) ==
    \A i \in DOMAIN s : \A j \in DOMAIN s : i < j => s[i].timestamp < s[j].timestamp

\* C11: the series the history function returned has strictly increasing
\* timestamps: ascending, and no two points of the same day, whatever the
\* upstream payload or the cache file held.
C11_StrictlyIncreasingSeries == StrictlyIncreasing(btc_df)

TierEnv(t) ==
    CASE t = "overlap" -> env.BUY_OVERLAP_AMOUNT
      [] t = "fng" -> env.BUY_FNG_AMOUNT
      [] OTHER -> env.BUY_MA_AMOUNT

TierDefault(t) ==
    CASE t = "overlap" -> DEFAULT_OVERLAP_AMOUNT
      [] t = "fng" -> DEFAULT_FNG_AMOUNT
      [] OTHER -> DEFAULT_MA_AMOUNT

\* C12: in either variant and for each of the three tiers, a cycle that chose
\* the tier (whose amount is a positive number) submits its order for the
\* tier's configured amount when that is set and for the tier's default
\* otherwise.
C12_TierAmountSubmitted ==
    (CycleEnded /\ tier # "none" /\ Usable(TierEnv(tier), TierDefault(tier)))
        => (/\ order_attempts >= 1
            /\ order_amount = AmountOrDefault(TierEnv(tier), TierDefault(tier)))

\* the chosen tier's branch has evaluated its amount expression (the overlap
\* branch of the Bitfinex script raises before it does)
AmountResolved == tier # "none" /\ ~(variant = "bitfinex" /\ tier = "overlap")

\* C13: a cycle whose chosen tier resolved a zero or negative amount ends
\* with the outcome "No purchase - Invalid buy amount", logged as the cycle's
\* outcome, and attempts no order.
C13_NonPositiveAmountRejected ==
    (CycleEnded /\ AmountResolved
            /\ FloatOk(TierEnv(tier)) /\ TierEnv(tier).val <= 0)
        => (/\ result = InvalidAmount
            /\ emitted = <<InvalidAmount>>
            /\ ~unexpected
            /\ order_attempts = 0)

\* Decide has computed the two signals of this cycle
Decided == pc \in {"order", "emit"} /\ result \notin {HistoryFailed, PriceFailed, InvalidThresholds}

\* C14: with the thresholds 25 and 0.10, buy_fng is true exactly when the
\* sentiment value is present and at most 25 (10 and 25 true, 30 and absent
\* false), and buy_ma is true exactly when the price is at most nine tenths
\* of the moving average (90 against 100 true, 91 false).
C14_SignalThresholds ==
    Decided =>
        /\ buy_fng <=> (fng_value # None /\ ~(fng_value > 25))
        /\ (fng_value = 10 => buy_fng) /\ (fng_value = 30 => ~buy_fng)
        /\ (fng_value = None => ~buy_fng)
        /\ buy_ma <=> ~(10 * current_price * effective_ma_period > 9 * ma_sum)
        /\ (ma_sum = 100 * effective_ma_period /\ current_price = 90) => buy_ma
        /\ (ma_sum = 100 * effective_ma_period /\ current_price = 91) => ~buy_ma

\* both comparisons at their boundary: sentiment 25, price 90, average 100
C14_Witness ==
    /\ pc = "order"
    /\ fng_value = 25 /\ buy_fng
    /\ current_price = 90 /\ ma_sum = 100 * effective_ma_period /\ buy_ma
    /\ tier = "overlap"

RECURSIVE SumOver(_, _)
SumOver(df, S) ==
    IF S = {} THEN 0
    ELSE LET i == CHOOSE k \in S : TRUE
         IN  df[i].close + SumOver(df, S \ {i})

\* S holds n rows of df, none older than a row left out
MostRecent(df, S, n) ==
    /\ Cardinality(S) = n
    /\ \A i \in S : \A j \in DOMAIN df \ S : df[j].timestamp <= df[i].timestamp

\* C15: for a non-empty series the effective window is the smaller of
\* ma_period and the series length, and the moving average is the mean of
\* the closes of that many most recent points (of all points when the series
\* is shorter than ma_period).
C15_MovingAverage ==
    (btc_df # <<>> /\ pc \notin {"history", "indicators"}) =>
        /\ effective_ma_period =
              (IF Len(btc_df) < ma_period THEN Len(btc_df) ELSE ma_period)
        /\ \E S \in SUBSET DOMAIN btc_df :
              /\ MostRecent(btc_df, S, effective_ma_period)
              /\ ma_sum = SumOver(btc_df, S)
        /\ Len(btc_df) < ma_period => ma_sum = SumOver(btc_df, DOMAIN btc_df)

\* a series longer than the window whose oldest and newest closes differ
C15_Witness ==
    /\ pc = "price"
    /\ Len(btc_df) > ma_period
    /\ effective_ma_period = ma_period
    /\ btc_df[1].timestamp < btc_df[Len(btc_df)].timestamp
    /\ btc_df[1].close > btc_df[Len(btc_df)].close
    /\ ma_sum = btc_df[Len(btc_df)].close + btc_df[Len(btc_df) - 1].close

\* the venue accepted this cycle's order and its answer carries an identifier
OrderAcknowledged ==
    /\ last_response.op = "order"
    /\ last_response.status = "accepted"
    /\ last_response.body.has_id

\* C16: when the venue has accepted an overlap order, the outcome string of
\* the cycle contains "Overlap" and the order identifier the venue returned.
C16_OverlapOutcomeHasId ==
    (OrderAcknowledged /\ tier = "overlap") =>
        /\ order_outcome.text = Bought
        /\ "Overlap" \in Range(order_outcome.reason)
        /\ "order_id" \in DOMAIN order_outcome
        /\ order_outcome.order_id = last_response.body.id

\* the names whose absence must prevent the start
RequiredNames ==
    {"API_KEY", "API_SECRET", "TRIGGER_TIME", "FNG_THRESHOLD_PERCENT",
     "MA_THRESHOLD_PERCENT"}
    \cup (IF variant = "bitfinex" THEN {"BUY_DAILY_AMOUNT"} ELSE {})

MissingNames == {n \in RequiredNames : ~Present(env, n)}

\* C17: when a required value is unset or empty, main logs the missing names
\* and returns: nothing is scheduled, no job or cycle runs, no request is
\* made upstream and no order is submitted.
C17_MissingConfigStopsStartup ==
    MissingNames # {} =>
        /\ pc \in {"main", "exited"}
        /\ pc = "exited" => log = {MissingLine(MissingNames)}
        /\ next_run = 0 /\ pending = <<>>
        /\ cycle_log = <<>> /\ daily_log = "none"
        /\ last_response = NoResponse
        /\ fng_requests = 0 /\ history_requests = 0 /\ price_requests = 0
        /\ client_ids = {} /\ order_attempts = 0 /\ ~daily_accepted

\* the Bitfinex script has returned for want of BUY_DAILY_AMOUNT alone
C17_Witness ==
    /\ variant = "bitfinex"
    /\ pc = "exited"
    /\ log = {MissingLine({"BUY_DAILY_AMOUNT"})}
    /\ last_response = NoResponse

\* the last history attempt was answered with rows, and no file was written
FetchedNotSaved ==
    /\ last_response.op = "history"
    /\ last_response.status = "ok"
    /\ last_response.body # <<>>
    /\ cache_file.state # "table"

\* C18: when the save of a fetched series fails, a warning is logged and the
\* history function returns the fetched series from that same attempt; no
\* further attempt follows, and the cycle goes on (it does not end with the
\* history failure outcome).
C18_SaveFailureIgnored ==
    /\ FetchedNotSaved =>
          /\ pc \in {"indicators", "price"}
          /\ SaveFailedLine \in log
          /\ btc_df \in SortIndex(last_response.body)
          /\ (pc = "indicators" => history_requests = attempt + 1)
          /\ result = NoResult
    /\ SaveFailedLine \in log =>
          /\ pc # "history"
          /\ btc_df # <<>>
          /\ history_requests \in 1..retries
          /\ result # HistoryFailed
          /\ cache_file.state # "table"

\* the save failed, and the cycle has decided to buy
C18_Witness ==
    /\ SaveFailedLine \in log
    /\ cache_file.state # "table"
    /\ pc = "order"
    /\ tier # "none"

Delays(n, running) == IF running THEN n ELSE IF n = 0 THEN 0 ELSE n - 1

\* C20: a cycle makes one sentiment request (a failed one is not repeated),
\* at most `retries` history requests, price requests and order submissions,
\* and sleeps only between two attempts of the same operation: never after
\* a successful attempt nor after the last failed one.
C20_BoundedTraffic ==
    /\ fng_requests <= 1
    /\ last_response.op = "fng" =>
          (fng_requests = 1 /\ pc \in {"cache", "history", "indicators", "price"})
    /\ history_requests <= retries
    /\ price_requests <= retries
    /\ order_attempts <= retries
    /\ sleeps = Delays(history_requests, pc = "history")
                + Delays(price_requests, pc = "price")
                + Delays(order_attempts, pc = "order")

\* the price came at the third attempt and the order failed three times
C20_Witness ==
    /\ history_requests = 2
    /\ price_requests = retries
    /\ order_attempts = retries
    /\ sleeps = 5
    /\ emitted = <<FailedToBuy>>

\* the order block of the cycle has ended without an acknowledged order
OrderGaveUp ==
    /\ order_attempts > 0
    /\ pc # "order"
    /\ ~order_accepted

\* C21: order submission is at-least-once.  An attempt the client saw fail
\* is followed by another submission until `retries` submissions were made,
\* whether or not the venue executed it; every submission is a new order
\* under a newly drawn client id, so the venue can have executed up to one
\* order per submission of one decision (two or more is reachable).
C21_AtLeastOnceSubmission ==
    /\ venue_executed <= order_attempts
    /\ order_attempts <= retries
    /\ order_accepted => venue_executed >= 1
    /\ OrderGaveUp => order_attempts = retries
    /\ (pc = "order" /\ venue_executed > 0) => attempt = order_attempts

\* the first attempt was executed but seen as failed, the retry was executed
\* and acknowledged: two buys for one decision, under two client ids
C21_Witness ==
    /\ variant = "coinex"
    /\ Len(cycle_log) = 1
    /\ order_attempts = 2
    /\ venue_executed = 2
    /\ Cardinality(client_ids) = 2
    /\ emitted = <<Bought>>

\* positions inside make_daily_purchase, and inside run_strategy
DailyPcs == {"daily", "daily_order", "daily_price"}
CyclePcs == {"strategy", "cache", "history", "indicators", "price", "decide",
             "order", "emit"}

\* C22: in the Bitfinex variant, at startup and on every trigger
\* make_daily_purchase runs first and has returned before run_strategy
\* starts; no step of one falls inside the other; the signal cycle starts
\* after the daily purchase whether it bought, failed or was skipped, and
\* its tier is computed from the sentiment, the price and the moving average
\* alone.
C22_DailyThenSignal ==
    [][variant = "bitfinex" =>
        /\ (pc \in {"main", "loop"} /\ pc' \notin {pc, "exited"})
              => (pc' = "daily" /\ pending' = <<"strategy">>)
        /\ pc \in DailyPcs =>
              /\ pc' \in DailyPcs \cup {"strategy"}
              /\ UNCHANGED <<now, next_run, cycle_log, cache_file, localVars,
                             outVars, countVars, textVars, trafficVars>>
        /\ (pc \in DailyPcs /\ pc' = "strategy")
              => (daily_log' \in {"bought", "failed", "skipped"} /\ pending' = <<>>)
        /\ (pc # "strategy" /\ pc' = "strategy") => pc \in DailyPcs
        /\ pc \in CyclePcs =>
              /\ pc' \in CyclePcs \cup {"loop"}
              /\ UNCHANGED <<dailyVars, pending>>
        /\ (pc = "decide" /\ pc' # "emit")
              => tier' = Tier(BuyFng(fng_value, env.FNG_THRESHOLD_PERCENT.val),
                              BuyMa(current_price, env.MA_THRESHOLD_PERCENT.val,
                                    ma_sum, effective_ma_period))
    ]_vars

\* on the scheduled trigger the daily purchase was logged as failed, and the
\* signal cycle that followed it bought
C22_Witness ==
    /\ variant = "bitfinex"
    /\ Len(cycle_log) = 2
    /\ daily_log = "failed"
    /\ pending = <<>>
    /\ pc = "emit"
    /\ result = Bought

\* make_daily_purchase has logged its line and returned
DailyReturned == pc \notin DailyPcs /\ daily_log # "none"

\* C23: make_daily_purchase logs "Failed to make daily purchase" only when
\* the venue accepted no order in that call, and logs "Daily purchase:
\* Bought" whenever an order was accepted.
C23_DailyLogMatchesOrder ==
    /\ daily_log = "failed" => ~daily_accepted
    /\ (DailyReturned /\ daily_accepted) => daily_log = "bought"

\* C24: a cached series that fails the validity check is not returned: the
\* file is removed before the first fetch attempt, a failed attempt writes
\* nothing, so when all attempts of that call failed there is no cache file;
\* and the file only changes by that removal or by the write of the whole
\* series a successful attempt fetched.
C24_InvalidCacheDiscarded ==
    [][ /\ (pc = "cache" /\ cache_file.state = "table"
                /\ ~ValidCache(cache_file, now))
             => (cache_file' = NoFile /\ pc' = "history" /\ btc_df' = <<>>)
        /\ pc = "history" =>
             /\ cache_file.state # "table"
             /\ pc' # "indicators" => (cache_file' = cache_file /\ btc_df' = <<>>)
        /\ (Len(cycle_log) = 1 /\ result' = HistoryFailed) => cache_file' = NoFile
        /\ cache_file' # cache_file =>
             \/ (pc = "cache" /\ cache_file' = NoFile)
             \/ (/\ pc = "history" /\ pc' = "indicators"
                 /\ last_response'.status = "ok"
                 /\ btc_df' \in SortIndex(last_response'.body)
                 /\ cache_file' = File(btc_df'))
      ]_vars

\* the file the process started with was stale or short, the three fetch
\* attempts of the first cycle failed, and no file is left
C24_Witness ==
    /\ Len(cycle_log) = 1
    /\ history_requests = retries
    /\ emitted = <<HistoryFailed>>
    /\ cache_file = NoFile

\* the cache file is a table whose newest point is less than a day old
FreshFile == cache_file.state = "table" /\ AgeDays(cache_file.rows, now) < 1

\* the history function answers from the file: no request, the file is kept
ReusedFile ==
    /\ pc' = "indicators"
    /\ btc_df' = cache_file.rows
    /\ history_requests' = 0
    /\ cache_file' = cache_file

\* C25 as stated: a cycle that finds a series persisted by the fetch of an
\* earlier cycle, less than a day after its newest point, reuses it without
\* an upstream request, also when it has fewer than ma_period points.
C25_FreshSeriesReused ==
    [][(pc = "cache" /\ Len(cycle_log) >= 2 /\ FreshFile) => ReusedFile]_vars

\* C25 as amended: a persisted series less than a day old is reused without
\* an upstream request when it has at least ma_period points; with fewer
\* points the file is removed and the cycle fetches again, one request per
\* attempt.
C25_SufficientFreshSeriesReused ==
    [][ /\ (pc = "cache" /\ FreshFile) =>
             IF Len(cache_file.rows) >= ma_period
             THEN ReusedFile
             ELSE /\ pc' = "history"
                  /\ cache_file' = NoFile
                  /\ btc_df' = <<>>
                  /\ history_requests' = 0
        /\ (pc = "history" /\ history_requests = 0) => history_requests' = 1
      ]_vars

\* the first cycle persisted a short series; the second cycle, the same day,
\* is at the validity check with that file on disk
C25_Witness ==
    /\ pc = "cache"
    /\ Len(cycle_log) = 2
    /\ cycle_log[1].day = cycle_log[2].day
    /\ FreshFile
    /\ Len(cache_file.rows) < ma_period

====
